---- MODULE Spec2Model ----
(***************************************************************************)
(* Model of the credential and token-safety code of event_app:             *)
(*   - Event.generate_id and the create_event view (identifier issuing),   *)
(*   - PasswordRules (password composition policy),                        *)
(*   - redirect_with_next / is_safe_url (redirect target validation),      *)
(*   - User.password / User.check_password (salted hashing).               *)
(* Each part has its own specification over the shared variables.          *)
(***************************************************************************)
EXTENDS Integers, Sequences, FiniteSets, TLC

VARIABLES
    \* events table and the create_event requests in flight
    db, pc, event_id, attempts,
    \* PasswordRules object, the last constructor call and the last validation
    rules, ctor_args, ctor, password, raise_error, outcome,
    \* redirect_with_next: the request and the response
    host_scheme, req_next, response,
    \* User row and the bcrypt build in use
    bcrypt_build, user, salt0, last_plain, set_arg, set_result, check_arg, check_result

tokenVars == <<db, pc, event_id, attempts>>
policyVars == <<rules, ctor_args, ctor, password, raise_error, outcome>>
redirectVars == <<host_scheme, req_next, response>>
credVars ==
    <<bcrypt_build, user, salt0, last_plain, set_arg, set_result, check_arg, check_result>>
vars == <<tokenVars, policyVars, redirectVars, credVars>>

\* Python's None, where a string or an object is expected
None == "None"
\* Python's None, where an integer is expected
NoneInt == -1

Min(a, b) == IF a < b THEN a ELSE b

-----------------------------------------------------------------------------
(* Identifier generation: models.py Event, views/events.py create_event      *)

\* size of the identifier space (62^10 in the program)
NumIds == 3
\* the attempts counter (not in the code) saturates here
MaxAttempts == 3
\* the retry ceiling the specification asks for (section 4.4); the code has none
RetryCeiling == 2

\* the two request workers running create_event concurrently
Procs == {1, 2}
Ids == 1..NumIds

\* the primary-key values of the events table
PersistedIds(table) == {e.id : e \in table}

\* Event.query.get(temp_id): the rows with that primary key; the empty set
\* stands for None
QueryGet(table, temp_id) == {e \in table : e.id = temp_id}

ReturnsUnchecked(table, temp_id) == TRUE

\* generate_id's test: "if Event.query.get(temp_id) is None: return temp_id"
GenerateIdReturns(table, temp_id) == QueryGet(table, temp_id) = {}

\* create_event: the form validated, Event(...) is being constructed
CreateEvent(p) ==
    /\ pc[p] \in {"idle", "done", "failed"}
    /\ pc' = [pc EXCEPT ![p] = "generate"]
    /\ event_id' = [event_id EXCEPT ![p] = NoneInt]
    /\ attempts' = [attempts EXCEPT ![p] = 0]
    /\ UNCHANGED <<db, policyVars, redirectVars, credVars>>

\* one iteration of generate_id's "while True": draw temp_id, look it up
GenerateId(p) ==
    /\ pc[p] = "generate"
    /\ \E temp_id \in Ids :
          IF GenerateIdReturns(db, temp_id)
          THEN /\ event_id' = [event_id EXCEPT ![p] = temp_id]
               /\ pc' = [pc EXCEPT ![p] = "add"]
               /\ UNCHANGED attempts
          ELSE /\ attempts' = [attempts EXCEPT ![p] = Min(attempts[p] + 1, MaxAttempts)]
               /\ UNCHANGED <<event_id, pc>>
    /\ UNCHANGED <<db, policyVars, redirectVars, credVars>>

\* db.session.add(new_event); db.session.commit(): the primary key rejects a
\* duplicate id (IntegrityError, not caught by create_event)
Commit(p) ==
    /\ pc[p] = "add"
    /\ IF event_id[p] \in PersistedIds(db)
       THEN /\ pc' = [pc EXCEPT ![p] = "failed"]
            /\ UNCHANGED db
       ELSE /\ db' = db \cup {[id |-> event_id[p], owner |-> p]}
            /\ pc' = [pc EXCEPT ![p] = "done"]
    /\ UNCHANGED <<event_id, attempts, policyVars, redirectVars, credVars>>

TokenInit ==
    /\ db = {}
    /\ pc = [p \in Procs |-> "idle"]
    /\ event_id = [p \in Procs |-> NoneInt]
    /\ attempts = [p \in Procs |-> 0]

TokenNext ==
    \E p \in Procs :
        \/ CreateEvent(p)
        \/ GenerateId(p)
        \/ Commit(p)

-----------------------------------------------------------------------------
(* Password policy: utils.py PasswordRules                                   *)

\* largest class minimum tried
MaxMin == 2
\* largest length floor tried
MaxLength == 3
\* longest password tried
MaxPwLen == 2

UPPERCASE ==
    {"A", "B", "C", "D", "E", "F", "G", "H", "I", "J", "K", "L", "M",
     "N", "O", "P", "Q", "R", "S", "T", "U", "V", "W", "X", "Y", "Z"}
LOWERCASE ==
    {"a", "b", "c", "d", "e", "f", "g", "h", "i", "j", "k", "l", "m",
     "n", "o", "p", "q", "r", "s", "t", "u", "v", "w", "x", "y", "z"}
DIGITS == {"0", "1", "2", "3", "4", "5", "6", "7", "8", "9"}

\* the characters passwords are drawn from: one or two of each class
PasswordChars == {"A", "z", "7", "!", " "}
\* Optional[int] arguments of the constructor
OptMins == {NoneInt} \cup 0..MaxMin
OptLengths == {NoneInt} \cup 0..MaxLength

\* all sequences over S of length at most n
SeqsUpTo(S, n) == UNION {[1..k -> S] : k \in 0..n}

Passwords == SeqsUpTo(PasswordChars, MaxPwLen)

RECURSIVE count_characters(_)
\* PasswordRules.count_characters: every character goes to exactly one counter
count_characters(pw) ==
    IF pw = <<>>
    THEN [uppercase |-> 0, lowercase |-> 0, digits |-> 0, special |-> 0]
    ELSE LET counter == count_characters(Tail(pw))
             char == Head(pw)
         IN IF char \in UPPERCASE
            THEN [counter EXCEPT !.uppercase = @ + 1]
            ELSE IF char \in LOWERCASE
            THEN [counter EXCEPT !.lowercase = @ + 1]
            ELSE IF char \in DIGITS
            THEN [counter EXCEPT !.digits = @ + 1]
            ELSE [counter EXCEPT !.special = @ + 1]

\* "a = lambda x: 0 if x is None else x"
NoneToZero(x) == IF x = NoneInt THEN 0 ELSE x

ExceedsOrEquals(a) ==
    /\ a.length # NoneInt
    /\ NoneToZero(a.uppercase) + NoneToZero(a.lowercase)
         + NoneToZero(a.digits) + NoneToZero(a.special) >= a.length

\* __init__'s test for raising ValueError("Length must be >= sum of requirements")
RequirementsExceedLength(a) ==
    /\ a.length # NoneInt
    /\ NoneToZero(a.uppercase) + NoneToZero(a.lowercase)
         + NoneToZero(a.digits) + NoneToZero(a.special) > a.length

\* "...{}".format(n, 's' if n != 1 else '')
ClassMessage(n, what) ==
    <<"Need at least ", n, what, IF n # 1 THEN "s" ELSE "">>

\* "Password must be at least {} characters".format(self.length)
LengthMessage(n) == <<"Password must be at least ", n, " characters">>

\* one of validate's four class checks
ClassCheck(minimum, count, what) ==
    IF minimum # NoneInt /\ minimum > count
    THEN <<ClassMessage(minimum, what)>>
    ELSE <<>>

LastError(errors) == errors[Len(errors)]

\* "raise ValidationError(errors[0])"
FirstError(errors) == errors[1]

NoOutcome == [kind |-> "none", errors |-> <<>>, msg |-> <<>>]

\* PasswordRules.validate: the returned list, or the exception raised.
\* "self.length > len(password)" raises TypeError when self.length is None.
validate(self, pw, raise_err) ==
    LET char_count == count_characters(pw)
        class_errors ==
            ClassCheck(self.uppercase, char_count.uppercase, " uppercase character")
            \o ClassCheck(self.lowercase, char_count.lowercase, " lowercase character")
            \o ClassCheck(self.digits, char_count.digits, " digit")
            \o ClassCheck(self.special, char_count.special, " special character")
    IN IF self.length = NoneInt
       THEN [kind |-> "TypeError", errors |-> <<>>, msg |-> <<>>]
       ELSE LET errors ==
                    class_errors
                    \o (IF self.length > Len(pw)
                        THEN <<LengthMessage(self.length)>>
                        ELSE <<>>)
            IN IF raise_err /\ errors # <<>>
               THEN [kind |-> "ValidationError", errors |-> <<>>, msg |-> FirstError(errors)]
               ELSE [kind |-> "ok", errors |-> errors, msg |-> <<>>]

\* PasswordRules(uppercase, lowercase, digits, special, length)
NewPasswordRules ==
    /\ ctor = "none"
    /\ \E u \in OptMins, l \in OptMins, d \in OptMins, s \in OptMins, n \in OptLengths :
          LET a == [uppercase |-> u, lowercase |-> l, digits |-> d,
                    special |-> s, length |-> n]
          IN /\ ctor_args' = a
             /\ IF RequirementsExceedLength(a)
                THEN ctor' = "ValueError" /\ UNCHANGED rules
                ELSE ctor' = "ok" /\ rules' = a
    /\ UNCHANGED <<password, raise_error, outcome, tokenVars, redirectVars, credVars>>

\* rules.validate(password)
Validate ==
    /\ ctor = "ok" /\ outcome.kind = "none"
    /\ \E pw \in Passwords :
          /\ password' = pw
          /\ raise_error' = FALSE
          /\ outcome' = validate(rules, pw, FALSE)
    /\ UNCHANGED <<rules, ctor_args, ctor, tokenVars, redirectVars, credVars>>

\* rules(form, field): validate(field.data, raise_error=True)
Call ==
    /\ ctor = "ok" /\ outcome.kind = "none"
    /\ \E pw \in Passwords :
          /\ password' = pw
          /\ raise_error' = TRUE
          /\ outcome' = validate(rules, pw, TRUE)
    /\ UNCHANGED <<rules, ctor_args, ctor, tokenVars, redirectVars, credVars>>

PolicyNext ==
    \/ NewPasswordRules
    \/ Validate
    \/ Call

-----------------------------------------------------------------------------
PolicyIdle ==
    /\ rules = None /\ ctor_args = None /\ ctor = "none"
    /\ password = <<>> /\ raise_error = FALSE /\ outcome = NoOutcome

-----------------------------------------------------------------------------
(* Redirect targets: utils.py redirect_with_next, is_safe_url                *)
(*                                                                           *)
(* A URL is a sequence of tokens: a word (a run of letters) or one of the    *)
(* characters ":", "/", "[". urlsplit, urlunsplit and urljoin are those of   *)
(* urllib.parse, restricted to this alphabet (no "?", "#", ";", ".", digits).*)

\* longest "next" value tried, in tokens
MaxUrlLen == 4

UrlWords == {"http", "https", "javascript", "app", "evil"}
UrlTokens == UrlWords \cup {":", "/", "["}
\* the host of the application
AppHost == <<"app">>
\* url_for(endpoint, **values)
Fallback == <<"/", "home">>

\* urllib.parse.uses_relative and uses_netloc, as far as the alphabet reaches
UsesRelative == {<<>>, <<"http">>, <<"https">>}
UsesNetloc == {<<>>, <<"http">>, <<"https">>}

NextValues == SeqsUpTo(UrlTokens, MaxUrlLen)

\* url[i:], 0-based as in Python
From(url, i) == SubSeq(url, i + 1, Len(url))
\* url[:i]
Upto(url, i) == SubSeq(url, 1, Min(i, Len(url)))

\* url.find(tok, start): the first 0-based index at or after start, or -1
Find(url, tok, start) ==
    LET hits == {i \in start..(Len(url) - 1) : url[i + 1] = tok}
    IN IF hits = {} THEN -1 ELSE CHOOSE i \in hits : \A j \in hits : i <= j

\* urlsplit(url, scheme): (scheme, netloc, path), or ValueError("Invalid IPv6 URL")
urlsplit(url, default_scheme) ==
    LET i == Find(url, ":", 0)
        has_scheme == i > 0 /\ \A k \in 1..i : url[k] \in UrlWords
        scheme == IF has_scheme THEN Upto(url, i) ELSE default_scheme
        rest == IF has_scheme THEN From(url, i + 1) ELSE url
        has_netloc == Upto(rest, 2) = <<"/", "/">>
        delim == IF Find(rest, "/", 2) = -1 THEN Len(rest) ELSE Find(rest, "/", 2)
        netloc == IF has_netloc THEN SubSeq(rest, 3, delim) ELSE <<>>
        path == IF has_netloc THEN From(rest, delim) ELSE rest
    IN [raised |-> has_netloc /\ \E k \in 1..Len(netloc) : netloc[k] = "[",
        scheme |-> scheme, netloc |-> netloc, path |-> path]

\* urlunsplit((scheme, netloc, url, '', ''))
urlunsplit(scheme, netloc, path) ==
    LET with_netloc ==
            IF netloc # <<>>
               \/ (scheme # <<>> /\ scheme \in UsesNetloc /\ Upto(path, 2) # <<"/", "/">>)
            THEN <<"/", "/">> \o netloc
                 \o (IF path # <<>> /\ Upto(path, 1) # <<"/">> THEN <<"/">> ELSE <<>>)
                 \o path
            ELSE path
    IN IF scheme # <<>> THEN scheme \o <<":">> \o with_netloc ELSE with_netloc

RECURSIVE CollapseSlashes(_)
\* "segments[1:-1] = filter(None, segments[1:-1])": the empty segments between
\* the first and the last go, so a run of "/" becomes one "/"
CollapseSlashes(path) ==
    IF Len(path) < 2 THEN path
    ELSE IF path[1] = "/" /\ path[2] = "/" THEN CollapseSlashes(Tail(path))
    ELSE <<Head(path)>> \o CollapseSlashes(Tail(path))

\* the element of a one-element set; "Only({F(x) : x \in {e}})" is F(e) with
\* e computed once
Only(S) == CHOOSE x \in S : TRUE

\* urljoin's cases, given the parsed base b and the parsed url u
JoinParsed(url, b, u) ==
    IF u.raised THEN [raised |-> TRUE, url |-> <<>>]
    ELSE IF u.scheme # b.scheme \/ u.scheme \notin UsesRelative
    THEN [raised |-> FALSE, url |-> url]
    ELSE IF u.scheme \in UsesNetloc /\ u.netloc # <<>>
    THEN [raised |-> FALSE, url |-> urlunsplit(u.scheme, u.netloc, u.path)]
    ELSE IF u.path = <<>>
    THEN [raised |-> FALSE, url |-> urlunsplit(u.scheme, b.netloc, b.path)]
    ELSE IF Upto(u.path, 1) = <<"/">>
    THEN [raised |-> FALSE, url |-> urlunsplit(u.scheme, b.netloc, u.path)]
    ELSE [raised |-> FALSE,
          url |-> urlunsplit(u.scheme, b.netloc, <<"/">> \o CollapseSlashes(u.path))]

\* urljoin(base, url) for a non-empty url: the joined URL, or ValueError
urljoin(base, url) ==
    Only({Only({JoinParsed(url, b, u) : u \in {urlsplit(url, b.scheme)}})
          : b \in {urlsplit(base, <<>>)}})

\* request.host_url
HostUrl(scheme) == <<scheme, ":", "/", "/">> \o AppHost \o <<"/">>

\* "test_url.scheme in ('http', 'https') and ref_url.netloc == test_url.netloc"
SafeParts(test_url, ref_url) ==
    /\ test_url.scheme \in {<<"http">>, <<"https">>}
    /\ ref_url.netloc = test_url.netloc

\* is_safe_url(target): "yes", "no", or "ValueError" out of urljoin/urlparse
is_safe_url(target, host_url) ==
    Only({Only({IF joined.raised \/ test_url.raised THEN "ValueError"
                ELSE IF SafeParts(test_url, ref_url) THEN "yes" ELSE "no"
                : test_url \in {urlsplit(joined.url, <<>>)}})
          : ref_url \in {urlsplit(host_url, <<>>)},
            joined \in {urljoin(host_url, target)}})

NoResponse == [kind |-> "none", location |-> <<>>]
NoNext == [present |-> FALSE, value |-> <<>>]

\* redirect_with_next(endpoint): the response, or the exception that escapes
redirect_with_next(req, host_url) ==
    IF ~req.present \/ req.value = <<>>
    THEN [kind |-> "redirect", location |-> Fallback]
    ELSE Only({IF safe = "ValueError" THEN [kind |-> "ValueError", location |-> <<>>]
               ELSE IF safe = "no" THEN [kind |-> "redirect", location |-> Fallback]
               ELSE [kind |-> "redirect", location |-> req.value]
               : safe \in {is_safe_url(req.value, host_url)}})

\* a request, with or without a "next" value, reaches redirect_with_next
RedirectWithNext ==
    /\ response.kind = "none"
    /\ \E scheme \in {"http", "https"},
          req \in {NoNext} \cup {[present |-> TRUE, value |-> v] : v \in NextValues} :
          /\ host_scheme' = scheme
          /\ req_next' = req
          /\ response' = redirect_with_next(req, HostUrl(scheme))
    /\ UNCHANGED <<tokenVars, policyVars, credVars>>

RedirectNext == RedirectWithNext

RedirectIdle ==
    /\ host_scheme = "http" /\ req_next = NoNext /\ response = NoResponse

-----------------------------------------------------------------------------
(* Credentials: models.py User.__init__, User.password, User.check_password  *)

\* longest plaintext tried
MaxPlainLen == 3
\* the longest input bcrypt reads (72 bytes in the library), scaled down
BcryptMaxBytes == 2

PlainChars == {"a", "b"}
Plaintexts == SeqsUpTo(PlainChars, MaxPlainLen)
\* the values uuid.uuid4().hex can give (32 hex digits in the program)
Salts == {<<"0">>, <<"1">>}
\* the random salt bcrypt puts inside each hash
InternalSalts == {0, 1}

\* what bcrypt.generate_password_hash does with an input over the limit:
\* cut it (bcrypt < 5.0), raise ValueError (bcrypt >= 5.0), or hash a SHA-256
\* of it first (Flask-Bcrypt with BCRYPT_HANDLE_LONG_PASSWORDS)
BcryptBuilds == {"truncate", "raise", "prehash"}

TooLong(input) == Len(input) > BcryptMaxBytes

\* the part of the input the digest depends on; the hash itself is taken to be
\* collision free
HashedPart(build, input) ==
    IF build = "truncate" THEN SubSeq(input, 1, Min(Len(input), BcryptMaxBytes))
    ELSE input

NoHash == [isalt |-> 0, digest |-> <<>>]

\* bcrypt.generate_password_hash(password), with the internal salt drawn
generate_password_hash(build, input, isalt) ==
    IF build = "raise" /\ TooLong(input)
    THEN [raised |-> TRUE, hash |-> NoHash]
    ELSE [raised |-> FALSE, hash |-> [isalt |-> isalt, digest |-> HashedPart(build, input)]]

\* bcrypt.check_password_hash(pw_hash, password): re-hash under the internal
\* salt of pw_hash and compare
check_password_hash(build, pw_hash, input) ==
    LET again == generate_password_hash(build, input, pw_hash.isalt)
    IN IF again.raised THEN "ValueError"
       ELSE IF again.hash = pw_hash THEN "True" ELSE "False"

NoUser == [exists |-> FALSE, salt |-> <<>>, _password |-> NoHash]

\* "salted_password = plain_password + self.salt"
SaltedPassword(plain_password, salt) == plain_password \o salt

SetterRotatesSalt(build, self, plain_password, isalt) ==
    LET fresh == CHOOSE x \in Salts : x # self.salt
        h == generate_password_hash(build, SaltedPassword(plain_password, fresh), isalt)
    IN [raised |-> h.raised,
        self |-> IF h.raised THEN self ELSE [self EXCEPT !.salt = fresh, !._password = h.hash]]

\* the password setter: self._password = generate_password_hash(salted_password)
PasswordSetter(build, self, plain_password, isalt) ==
    LET h == generate_password_hash(build, SaltedPassword(plain_password, self.salt), isalt)
    IN [raised |-> h.raised,
        self |-> IF h.raised THEN self ELSE [self EXCEPT !._password = h.hash]]

\* User.check_password(plain_password)
check_password(build, self, plain_password) ==
    check_password_hash(build, self._password, SaltedPassword(plain_password, self.salt))

\* User(first_name, email, password): the salt is drawn, then the setter runs
NewUser ==
    /\ ~user.exists
    /\ \E plain \in Plaintexts, salt \in Salts, isalt \in InternalSalts :
          LET self == [exists |-> TRUE, salt |-> salt, _password |-> NoHash]
              r == PasswordSetter(bcrypt_build, self, plain, isalt)
          IN /\ set_arg' = plain
             /\ salt0' = salt
             /\ IF r.raised
                THEN set_result' = "ValueError" /\ UNCHANGED <<user, last_plain>>
                ELSE set_result' = "created" /\ user' = r.self /\ last_plain' = plain
    /\ UNCHANGED <<bcrypt_build, check_arg, check_result, tokenVars, policyVars, redirectVars>>

\* user.password = plain
SetPassword ==
    /\ user.exists
    /\ \E plain \in Plaintexts, isalt \in InternalSalts :
          LET r == PasswordSetter(bcrypt_build, user, plain, isalt)
          IN /\ set_arg' = plain
             /\ IF r.raised
                THEN set_result' = "ValueError" /\ UNCHANGED <<user, last_plain>>
                ELSE set_result' = "assigned" /\ user' = r.self /\ last_plain' = plain
    /\ UNCHANGED <<bcrypt_build, salt0, check_arg, check_result,
                   tokenVars, policyVars, redirectVars>>

\* user.check_password(plain)
CheckPassword ==
    /\ user.exists
    /\ \E plain \in Plaintexts :
          /\ check_arg' = plain
          /\ check_result' = check_password(bcrypt_build, user, plain)
    /\ UNCHANGED <<bcrypt_build, user, salt0, last_plain, set_arg, set_result,
                   tokenVars, policyVars, redirectVars>>

CredNext ==
    \/ NewUser
    \/ SetPassword
    \/ CheckPassword

CredIdle ==
    /\ bcrypt_build = "truncate" /\ user = NoUser /\ salt0 = <<>> /\ last_plain = <<>>
    /\ set_arg = <<>> /\ set_result = "none" /\ check_arg = <<>> /\ check_result = "none"

CredInit ==
    /\ bcrypt_build \in BcryptBuilds /\ user = NoUser /\ salt0 = <<>> /\ last_plain = <<>>
    /\ set_arg = <<>> /\ set_result = "none" /\ check_arg = <<>> /\ check_result = "none"

TokenSpecInit == TokenInit /\ PolicyIdle /\ RedirectIdle /\ CredIdle

TokenSpec ==
    /\ TokenSpecInit
    /\ [][TokenNext]_vars

RedirectSpecInit == TokenInit /\ PolicyIdle /\ RedirectIdle /\ CredIdle

RedirectSpec ==
    /\ RedirectSpecInit
    /\ [][RedirectNext]_vars

CredentialSpecInit == TokenInit /\ PolicyIdle /\ RedirectIdle /\ CredInit

CredentialSpec ==
    /\ CredentialSpecInit
    /\ [][CredNext]_vars

PolicySpecInit == TokenInit /\ PolicyIdle /\ RedirectIdle /\ CredIdle

PolicySpec ==
    /\ PolicySpecInit
    /\ [][PolicyNext]_vars

-----------------------------------------------------------------------------
(* Claims about identifier generation                                        *)

\* C1: generate_id returns a candidate only when the lookup made for it in the
\* same iteration reported it absent from the events table.
C1_ReturnedIdAbsent ==
    [][\A p \in Procs :
          (pc[p] = "generate" /\ pc'[p] = "add")
              => QueryGet(db, event_id'[p]) = {}]_vars

\* a generation that rejected a colliding candidate and then returned one
C1_Witness ==
    \E p \in Procs : pc[p] = "add" /\ attempts[p] > 0 /\ db # {}

\* every candidate exists
AllExist == PersistedIds(db) = Ids

\* C2: with every candidate reported as existing, generation gives up once the
\* retry ceiling is reached (it is no longer drawing candidates).
C2_StopsAtCeiling ==
    \A p \in Procs :
        (AllExist /\ pc[p] = "generate") => attempts[p] <= RetryCeiling

\* C3: no two persisted events share an id, and no creation ends on the
\* uniqueness violation: the loser generates again and persists its event.
C3_BothPersist ==
    /\ \A e1, e2 \in db : e1.id = e2.id => e1 = e2
    /\ \A p \in Procs : pc[p] # "failed"

-----------------------------------------------------------------------------
(* Claims about the password policy                                          *)

\* the sum of the class minimums, a null minimum counting as 0
C4_Sum(a) ==
    (IF a.uppercase = NoneInt THEN 0 ELSE a.uppercase)
    + (IF a.lowercase = NoneInt THEN 0 ELSE a.lowercase)
    + (IF a.digits = NoneInt THEN 0 ELSE a.digits)
    + (IF a.special = NoneInt THEN 0 ELSE a.special)

\* C4: construction fails exactly when the length is given and the sum of the
\* non-null class minimums is strictly greater than it; with a null length it
\* always succeeds. A successful construction stores the arguments.
C4_ConstructionFailsIffSumExceeds ==
    ctor # "none" =>
        /\ ctor = "ValueError" <=>
              (ctor_args.length # NoneInt /\ C4_Sum(ctor_args) > ctor_args.length)
        /\ ctor_args.length = NoneInt => ctor = "ok"
        /\ ctor = "ok" => rules = ctor_args

\* a rejected construction with an unset minimum, and the sum one above the length
C4_Witness ==
    /\ ctor = "ValueError"
    /\ ctor_args.uppercase = NoneInt
    /\ C4_Sum(ctor_args) = ctor_args.length + 1

NoMinimums(r) ==
    /\ r.uppercase = NoneInt /\ r.lowercase = NoneInt
    /\ r.digits = NoneInt /\ r.special = NoneInt

\* C5: a policy with no class minimum and the length floor None or 0 accepts
\* every password: validate returns the empty list and raises nothing.
C5_NoFloorAcceptsAll ==
    (ctor = "ok" /\ outcome.kind # "none" /\ NoMinimums(rules)
        /\ rules.length \in {NoneInt, 0})
    => outcome = [kind |-> "ok", errors |-> <<>>, msg |-> <<>>]

\* the number of characters of pw in class S
C6_Count(pw, S) == Cardinality({i \in 1..Len(pw) : pw[i] \in S})

\* the message expected for a class, when its minimum is set and not met
C6_Expect(minimum, count, what) ==
    IF minimum # NoneInt /\ count < minimum
    THEN << <<"Need at least ", minimum, what, IF minimum = 1 THEN "" ELSE "s">> >>
    ELSE <<>>

\* the deficiency list of the claim: uppercase, lowercase, digit, special, length
C6_Expected(r, pw) ==
    C6_Expect(r.uppercase, C6_Count(pw, UPPERCASE), " uppercase character")
    \o C6_Expect(r.lowercase, C6_Count(pw, LOWERCASE), " lowercase character")
    \o C6_Expect(r.digits, C6_Count(pw, DIGITS), " digit")
    \o C6_Expect(r.special,
                 Len(pw) - C6_Count(pw, UPPERCASE \cup LOWERCASE \cup DIGITS),
                 " special character")
    \o (IF r.length # NoneInt /\ Len(pw) < r.length
        THEN << <<"Password must be at least ", r.length, " characters">> >>
        ELSE <<>>)

\* C6: for every policy and password, plain validate returns exactly the
\* deficiencies of all five checks, in the fixed order.
C6_AllChecksReported ==
    (ctor = "ok" /\ outcome.kind # "none" /\ ~raise_error)
    => outcome = [kind |-> "ok", errors |-> C6_Expected(rules, password), msg |-> <<>>]

\* C6 restricted to the policies whose length floor is an integer
C6_AllChecksReportedWithLength ==
    (ctor = "ok" /\ outcome.kind # "none" /\ ~raise_error /\ rules.length # NoneInt)
    => outcome = [kind |-> "ok", errors |-> C6_Expected(rules, password), msg |-> <<>>]

\* C7: whenever plain validate returns a list, the fail-fast form raises a
\* ValidationError carrying the first message of that list if it is non-empty,
\* and returns the empty list without raising if it is empty.
C7_FailFastCarriesFirst ==
    (ctor = "ok" /\ outcome.kind # "none" /\ raise_error)
    => LET plain == validate(rules, password, FALSE)
       IN plain.kind = "ok" =>
             IF plain.errors # <<>>
             THEN outcome = [kind |-> "ValidationError", errors |-> <<>>,
                             msg |-> Head(plain.errors)]
             ELSE outcome = [kind |-> "ok", errors |-> <<>>, msg |-> <<>>]

\* a fail-fast call on a password with several deficiencies
C7_Witness ==
    /\ ctor = "ok" /\ raise_error /\ outcome.kind = "ValidationError"
    /\ Len(validate(rules, password, FALSE).errors) >= 3

-----------------------------------------------------------------------------
(* Claims about redirect targets                                             *)

\* the "next" value, resolved against the origin, has scheme http or https and
\* the origin's network location
C8_Safe(value, origin) ==
    LET resolved == urljoin(origin, value)
        parts == urlsplit(resolved.url, <<>>)
    IN /\ ~resolved.raised /\ ~parts.raised
       /\ parts.scheme \in {<<"http">>, <<"https">>}
       /\ parts.netloc = AppHost

\* the destination the claim gives: the "next" value if present and safe,
\* the fallback endpoint in every other case
C8_Destination ==
    IF req_next.present /\ req_next.value # <<>>
       /\ C8_Safe(req_next.value, HostUrl(host_scheme))
    THEN req_next.value
    ELSE Fallback

\* C8: redirect_with_next never raises, and redirects to the "next" value only
\* if it is present and same-origin with scheme http or https, else to the
\* fallback endpoint.
C8_SafeRedirectNeverRaises ==
    response.kind # "none" =>
        /\ response.kind = "redirect"
        /\ response.location = C8_Destination

\* the destination part of C8, for the requests on which nothing is raised
C8_DestinationWhenNotRaised ==
    response.kind = "redirect" => response.location = C8_Destination

-----------------------------------------------------------------------------
(* Claims about credentials                                                  *)

\* C9: assigning a plaintext that, with its salt, is over the primitive's
\* limit signals an error and stores nothing; and no two over-long plaintexts
\* are both accepted against the same stored hash.
C9_OverlongRejected ==
    /\ (set_result # "none" /\ TooLong(SaltedPassword(set_arg, salt0)))
          => set_result = "ValueError"
    /\ (user.exists /\ check_result = "True"
          /\ TooLong(SaltedPassword(check_arg, user.salt))
          /\ check_password(bcrypt_build, user, last_plain) = "True")
          => check_arg = last_plain

\* C10: the user's salt is the one drawn at creation, whatever passwords were
\* assigned since; the stored hash is derived from the last assigned plaintext
\* with that salt, and check_password accepts that plaintext with it.
C10_SaltKeptAcrossAssignments ==
    user.exists =>
        /\ user.salt = salt0
        /\ user._password.digest
              = HashedPart(bcrypt_build, SaltedPassword(last_plain, salt0))
        /\ check_password(bcrypt_build, user, last_plain) = "True"

\* a password assigned after creation, then checked and accepted
C10_Witness ==
    /\ user.exists /\ set_result = "assigned"
    /\ check_result = "True" /\ check_arg = last_plain /\ last_plain # <<>>

====
